---- MODULE Spec2Model ----
(***************************************************************************)
(* Model of person_registry.py: the Person entity, the Registry            *)
(* (add / promote / complete) and PipelineOrchestrator.run.                 *)
(*                                                                         *)
(* Spec     : a caller drives one Registry through any sequence of         *)
(*            add(person), complete(person) and promote() calls.           *)
(* SpecRun  : the program of the __main__ block: a fresh Registry driven   *)
(*            by PipelineOrchestrator.run with a PersonGenerator.          *)
(***************************************************************************)
EXTENDS Integers, Sequences, FiniteSets, TLC

\* ---------------------------------------------------------------- bounds
NumPersons == 3          \* Person objects that exist in the model
MaxLimit == 2            \* largest Registry.limit tried
MaxClock == 6            \* datetime.now() is called at most this often
MaxTicks == 3            \* largest tick_interval tried
MaxUsersPerTick == 2     \* largest min/max_user_per_tick tried
MaxProcessingTime == 2   \* largest min/max_processing_time tried

\* ------------------------------------------------------- program values
None == 0                \* an unset timestamp (datetime | None)
IdBase == 100            \* id_no values are kept apart from object names

Persons == 1..NumPersons
Statuses == {"UNASSIGNED", "ASSIGNED", "WAITING", "COMPLETED"}

\* Person.id_no: uuid4(), one fresh value per object, never reassigned
id_no(p) == IdBase + p

\* Person.__init__: the fields of a newly constructed object
NewPerson(processing_time) ==
    [ processing_time |-> processing_time,
      assigned_at     |-> None,
      registered_at   |-> None,
      completed_at    |-> None,
      status          |-> "UNASSIGNED" ]

VARIABLES
    limit,            \* Registry.limit
    assigned_list,    \* Registry.__assigned_list  (sequence of Person)
    awaiting_queue,   \* Registry.__awaiting_queue (sequence of Person)
    completed_list,   \* Registry.__completed_list (sequence of Person)
    seen_ids,         \* Registry.__seen_ids       (set of id_no)
    persons,          \* the fields of every Person object
    clock,            \* number of datetime.now() calls so far
    call,             \* the last Registry call: name, argument, how it ended
    pc,               \* where PipelineOrchestrator.run is
    tick_interval,    \* PipelineOrchestrator.tick_interval
    finished,         \* run: the part of `finished` not yet completed
    users,            \* run: the part of `users` not yet added
    batch,            \* run: the `users` list of this tick as generated
    created,          \* number of Person objects constructed so far
    gen,              \* PersonGenerator's four range fields
    saved,            \* the rows Registry.save wrote, one entry per call
    raised,           \* the exception that ended the loop of run, if any
    ticks_total,      \* the tick_interval the orchestrator was built with
    reported,         \* number of tick summaries report_detailed has logged
    snapshot,         \* run: the assigned_list tuple read at line 203
    trace             \* per person: tick and time at entry to the active
                      \* list, tick of completion (observation only)

regvars == <<limit, assigned_list, awaiting_queue, completed_list, seen_ids,
             persons, clock>>
obsvars == <<ticks_total, reported, snapshot, trace>>
runvars == <<pc, tick_interval, finished, users, batch, created, gen, saved,
             raised, ticks_total, reported, snapshot, trace>>
vars == <<limit, assigned_list, awaiting_queue, completed_list, seen_ids,
          persons, clock, call, pc, tick_interval, finished, users, batch,
          created, gen, saved, raised, ticks_total, reported, snapshot,
          trace>>

\* ------------------------------------------------------ sequence helpers
Range(s) == {s[i] : i \in 1..Len(s)}

\* index of the first occurrence of x in s, 0 when absent
IndexOf(s, x) ==
    IF x \in Range(s)
    THEN CHOOSE i \in 1..Len(s) : s[i] = x /\ \A j \in 1..(i-1) : s[j] # x
    ELSE 0

\* list.remove(x) for x present: drops the first occurrence
remove(s, x) ==
    LET i == IndexOf(s, x)
    IN  SubSeq(s, 1, i-1) \o SubSeq(s, i+1, Len(s))

\* ------------------------------------------------------------- Registry
\* The registry operations are functions of a record r holding the
\* registry fields, the Person objects, the clock and the call's outcome.
Reg ==
    [ limit          |-> limit,
      assigned_list  |-> assigned_list,
      awaiting_queue |-> awaiting_queue,
      completed_list |-> completed_list,
      seen_ids       |-> seen_ids,
      persons        |-> persons,
      clock          |-> clock,
      signal         |-> "ok" ]

\* datetime.now(): every call reads a later instant
now(r) == r.clock + 1

\* Person.register
register(r, p) ==
    [r EXCEPT !.persons[p].registered_at = now(r),
              !.persons[p].status = "WAITING",
              !.clock = now(r)]

\* Person.assign
assign(r, p) ==
    [r EXCEPT !.persons[p].assigned_at = now(r),
              !.persons[p].status = "ASSIGNED",
              !.clock = now(r)]

\* Registry.available_tickets
available_tickets(r) == r.limit - Len(r.assigned_list)

\* add without the test of available_tickets: every new person is assigned
add_unbounded(r, p) ==
    IF id_no(p) \in r.seen_ids
    THEN [r EXCEPT !.signal = "duplicate"]
    ELSE LET r1 == [r EXCEPT !.seen_ids = @ \cup {id_no(p)}]
             r2 == IF r1.persons[p].registered_at = None
                   THEN register(r1, p) ELSE r1
         IN  [assign(r2, p) EXCEPT !.assigned_list = Append(@, p)]

\* add without the test of __seen_ids
add_no_dup_check(r, p) ==
    LET r1 == [r EXCEPT !.seen_ids = @ \cup {id_no(p)}]
        r2 == IF r1.persons[p].registered_at = None
              THEN register(r1, p) ELSE r1
    IN  IF available_tickets(r2) > 0
        THEN [assign(r2, p) EXCEPT !.assigned_list = Append(@, p)]
        ELSE [r2 EXCEPT !.awaiting_queue = Append(@, p)]

\* add with insert(0, person) on the waiting queue instead of append
add_queue_front(r, p) ==
    IF id_no(p) \in r.seen_ids
    THEN [r EXCEPT !.signal = "duplicate"]
    ELSE LET r1 == [r EXCEPT !.seen_ids = @ \cup {id_no(p)}]
             r2 == IF r1.persons[p].registered_at = None
                   THEN register(r1, p) ELSE r1
         IN  IF available_tickets(r2) > 0
             THEN [assign(r2, p) EXCEPT !.assigned_list = Append(@, p)]
             ELSE [r2 EXCEPT !.awaiting_queue = <<p>> \o @]

\* add without the test of available_tickets: every accepted person waits
add_queue_only(r, p) ==
    IF id_no(p) \in r.seen_ids
    THEN [r EXCEPT !.signal = "duplicate"]
    ELSE LET r1 == [r EXCEPT !.seen_ids = @ \cup {id_no(p)}]
             r2 == IF r1.persons[p].registered_at = None
                   THEN register(r1, p) ELSE r1
         IN  [r2 EXCEPT !.awaiting_queue = Append(@, p)]

\* Registry.add
add(r, p) ==
    IF id_no(p) \in r.seen_ids
    THEN [r EXCEPT !.signal = "duplicate"]
    ELSE LET r1 == [r EXCEPT !.seen_ids = @ \cup {id_no(p)}]
             r2 == IF r1.persons[p].registered_at = None
                   THEN register(r1, p) ELSE r1
         IN  IF available_tickets(r2) > 0
             THEN [assign(r2, p) EXCEPT !.assigned_list = Append(@, p)]
             ELSE [r2 EXCEPT !.awaiting_queue = Append(@, p)]

\* promote with `if self.__awaiting_queue:` for the while loop and its test
\* of available_tickets: every call moves one waiting person
promote_one_unchecked(r) ==
    IF r.awaiting_queue # <<>>
    THEN LET next_person == Head(r.awaiting_queue)
             r1 == [r EXCEPT !.awaiting_queue = Tail(@)]
         IN  [assign(r1, next_person)
                EXCEPT !.assigned_list = Append(@, next_person)]
    ELSE r

\* promote with pop() instead of pop(0): the newest waiting person first
RECURSIVE promote_last(_)
promote_last(r) ==
    IF r.awaiting_queue # <<>> /\ available_tickets(r) > 0
    THEN LET n == Len(r.awaiting_queue)
             next_person == r.awaiting_queue[n]
             r1 == [r EXCEPT !.awaiting_queue = SubSeq(@, 1, n - 1)]
         IN  promote_last([assign(r1, next_person)
                             EXCEPT !.assigned_list = Append(@, next_person)])
    ELSE r

\* promote without the append to __assigned_list: the person taken from the
\* waiting queue is assigned but put nowhere
RECURSIVE promote_losing(_)
promote_losing(r) ==
    IF r.awaiting_queue # <<>> /\ available_tickets(r) > 0
    THEN LET next_person == Head(r.awaiting_queue)
             r1 == [r EXCEPT !.awaiting_queue = Tail(@)]
         IN  promote_losing(assign(r1, next_person))
    ELSE r

\* Registry.promote
RECURSIVE promote(_)
promote(r) ==
    IF r.awaiting_queue # <<>> /\ available_tickets(r) > 0
    THEN LET next_person == Head(r.awaiting_queue)
             r1 == [r EXCEPT !.awaiting_queue = Tail(@)]
         IN  promote([assign(r1, next_person)
                        EXCEPT !.assigned_list = Append(@, next_person)])
    ELSE r

\* complete without the discard from __seen_ids
complete_keep_seen(r, p) ==
    LET r1 == [r EXCEPT !.persons[p].completed_at = now(r),
                        !.persons[p].status = "COMPLETED",
                        !.clock = now(r)]
    IN  IF p \notin Range(r1.assigned_list)
        THEN [r1 EXCEPT !.signal = "ValueError"]
        ELSE promote([r1 EXCEPT !.assigned_list = remove(@, p),
                                !.completed_list = Append(@, p)])

\* complete that skips the removal of an absent person instead of raising
complete_discard(r, p) ==
    LET r1 == [r EXCEPT !.persons[p].completed_at = now(r),
                        !.persons[p].status = "COMPLETED",
                        !.clock = now(r)]
    IN  promote([r1 EXCEPT !.assigned_list =
                               IF p \in Range(@) THEN remove(@, p) ELSE @,
                           !.seen_ids = @ \ {id_no(p)},
                           !.completed_list = Append(@, p)])

\* complete without the final call of promote
complete_no_promote(r, p) ==
    LET r1 == [r EXCEPT !.persons[p].completed_at = now(r),
                        !.persons[p].status = "COMPLETED",
                        !.clock = now(r)]
    IN  IF p \notin Range(r1.assigned_list)
        THEN [r1 EXCEPT !.signal = "ValueError"]
        ELSE [r1 EXCEPT !.assigned_list = remove(@, p),
                        !.seen_ids = @ \ {id_no(p)},
                        !.completed_list = Append(@, p)]

\* complete with insert(0, person) on the completed log instead of append
complete_log_front(r, p) ==
    LET r1 == [r EXCEPT !.persons[p].completed_at = now(r),
                        !.persons[p].status = "COMPLETED",
                        !.clock = now(r)]
    IN  IF p \notin Range(r1.assigned_list)
        THEN [r1 EXCEPT !.signal = "ValueError"]
        ELSE promote([r1 EXCEPT !.assigned_list = remove(@, p),
                                !.seen_ids = @ \ {id_no(p)},
                                !.completed_list = <<p>> \o @])

\* Registry.complete; list.remove raises ValueError when person is absent,
\* after the two assignments to the person have been made
complete(r, p) ==
    LET r1 == [r EXCEPT !.persons[p].completed_at = now(r),
                        !.persons[p].status = "COMPLETED",
                        !.clock = now(r)]
    IN  IF p \notin Range(r1.assigned_list)
        THEN [r1 EXCEPT !.signal = "ValueError"]
        ELSE promote([r1 EXCEPT !.assigned_list = remove(@, p),
                                !.seen_ids = @ \ {id_no(p)},
                                !.completed_list = Append(@, p)])

\* the registry variables take the values of r
SetReg(r) ==
    /\ assigned_list' = r.assigned_list
    /\ awaiting_queue' = r.awaiting_queue
    /\ completed_list' = r.completed_list
    /\ seen_ids' = r.seen_ids
    /\ persons' = r.persons
    /\ clock' = r.clock
    /\ limit' = r.limit

\* nothing observed about a person yet
NoTrace == [entered |-> 0, time |-> 0, left |-> 0]

\* ------------------------------------------- Spec: a caller of Registry
\* Registry.__init__ with a positive limit; the Person objects exist and
\* have not been handed to the registry
Init ==
    /\ limit \in 1..MaxLimit
    /\ assigned_list = <<>>
    /\ awaiting_queue = <<>>
    /\ completed_list = <<>>
    /\ seen_ids = {}
    /\ persons = [p \in Persons |-> NewPerson(1)]
    /\ clock = 0
    /\ call = [op |-> "init", person |-> 0, signal |-> "ok"]
    /\ pc = "caller"
    /\ tick_interval = 0
    /\ finished = <<>>
    /\ users = <<>>
    /\ batch = <<>>
    /\ created = NumPersons
    /\ gen = [min_user_per_tick |-> 0, max_user_per_tick |-> 0,
              min_processing_time |-> 0, max_processing_time |-> 0]
    /\ saved = <<>>
    /\ raised = "none"
    /\ ticks_total = 0
    /\ reported = 0
    /\ snapshot = <<>>
    /\ trace = [p \in Persons |-> NoTrace]

Add(p) ==
    LET r == add(Reg, p)
    IN  /\ r.clock <= MaxClock
        /\ SetReg(r)
        /\ call' = [op |-> "add", person |-> p, signal |-> r.signal]
        /\ UNCHANGED runvars

Complete(p) ==
    LET r == complete(Reg, p)
    IN  /\ r.clock <= MaxClock
        /\ SetReg(r)
        /\ call' = [op |-> "complete", person |-> p, signal |-> r.signal]
        /\ UNCHANGED runvars

Promote ==
    LET r == promote(Reg)
    IN  /\ r.clock <= MaxClock
        /\ SetReg(r)
        /\ call' = [op |-> "promote", person |-> 0, signal |-> r.signal]
        /\ UNCHANGED runvars

CallAdd == \E p \in Persons : Add(p)
CallComplete == \E p \in Persons : Complete(p)

Next ==
    \/ CallAdd
    \/ CallComplete
    \/ Promote

Spec == Init /\ [][Next]_vars

\* A caller that submits every person once (each Person carries its own
\* uuid4, line 40) and completes only persons of the active list
AddFresh(p) ==
    /\ persons[p].registered_at = None
    /\ id_no(p) \notin seen_ids
    /\ Add(p)

CompleteActive(p) ==
    /\ p \in Range(assigned_list)
    /\ Complete(p)

CallAddFresh == \E p \in Persons : AddFresh(p)
CallCompleteActive == \E p \in Persons : CompleteActive(p)

NextFresh ==
    \/ CallAddFresh
    \/ CallCompleteActive
    \/ Promote

SpecFresh == Init /\ [][NextFresh]_vars

\* ------------------------------ SpecRun: PipelineOrchestrator.run
\* the positions of run at which the try block of the loop is active
InLoop == {"while", "decrement", "complete", "generate", "add", "report"}

\* the `generator` section of the configuration: for the batch size and for
\* the processing time either the widest range, whose draws include those of
\* every narrower range, or a range with min > max, which random.randint
\* rejects
GeneratorConfigs ==
    {g \in [min_user_per_tick : 0..MaxUsersPerTick,
            max_user_per_tick : 0..MaxUsersPerTick,
            min_processing_time : 0..MaxProcessingTime,
            max_processing_time : 0..MaxProcessingTime] :
        /\ \/ g.min_user_per_tick > g.max_user_per_tick
           \/ /\ g.min_user_per_tick = 0
              /\ g.max_user_per_tick = MaxUsersPerTick
        /\ \/ g.min_processing_time > g.max_processing_time
           \/ /\ g.min_processing_time = 0
              /\ g.max_processing_time = MaxProcessingTime}

\* __main__: a fresh Registry of positive limit, a PersonGenerator and a
\* PipelineOrchestrator built from the configuration, then pipeline.run()
InitRun ==
    /\ limit \in 1..MaxLimit
    /\ assigned_list = <<>>
    /\ awaiting_queue = <<>>
    /\ completed_list = <<>>
    /\ seen_ids = {}
    /\ persons = [p \in Persons |-> NewPerson(0)]
    /\ clock = 0
    /\ call = [op |-> "init", person |-> 0, signal |-> "ok"]
    /\ pc = "while"
    /\ tick_interval \in 0..MaxTicks
    /\ finished = <<>>
    /\ users = <<>>
    /\ batch = <<>>
    /\ created = 0
    /\ gen \in GeneratorConfigs
    /\ saved = <<>>
    /\ raised = "none"
    /\ ticks_total = tick_interval
    /\ reported = 0
    /\ snapshot = <<>>
    /\ trace = [p \in Persons |-> NoTrace]

\* the number of the tick the loop is in (1 for the first), 0 before it
TickNo == ticks_total - tick_interval

\* trace after a registry call that led from the current lists to those of
\* r: who entered the active list in this tick and with what time left, and
\* who was appended to the completed log in this tick
Observe(r) ==
    [p \in Persons |->
       IF p \in Range(r.assigned_list) /\ p \notin Range(assigned_list)
       THEN [trace[p] EXCEPT !.entered = TickNo,
                             !.time = r.persons[p].processing_time]
       ELSE IF Len(r.completed_list) > Len(completed_list)
               /\ p = r.completed_list[Len(r.completed_list)]
            THEN [trace[p] EXCEPT !.left = TickNo]
            ELSE trace[p]]

\* the persons of list s that satisfy Keep, in the order of s
RECURSIVE SelectPersons(_, _)
SelectPersons(s, keep) ==
    IF s = <<>> THEN <<>>
    ELSE IF Head(s) \in keep
         THEN <<Head(s)>> \o SelectPersons(Tail(s), keep)
         ELSE SelectPersons(Tail(s), keep)

\* run with `while self.tick_interval >= 0`
WhileTest_inclusive ==
    /\ pc = "while"
    /\ IF tick_interval >= 0
       THEN /\ tick_interval' = tick_interval - 1
            /\ pc' = "decrement"
       ELSE /\ pc' = "final"
            /\ UNCHANGED tick_interval
    /\ UNCHANGED <<regvars, call, finished, users, batch, created, gen, saved,
                   raised, obsvars>>

\* run, lines 200-201: the loop test and the decrement of the tick counter
WhileTest ==
    /\ pc = "while"
    /\ IF tick_interval > 0
       THEN /\ tick_interval' = tick_interval - 1
            /\ pc' = "decrement"
       ELSE /\ pc' = "final"
            /\ UNCHANGED tick_interval
    /\ UNCHANGED <<regvars, call, finished, users, batch, created, gen, saved,
                   raised, obsvars>>

\* run with lines 206-207 ahead of lines 203-204: `finished` is read
\* before the times are decremented
Decrement_stale ==
    /\ pc = "decrement"
    /\ persons' = [p \in Persons |->
                     IF p \in Range(assigned_list)
                     THEN [persons[p] EXCEPT !.processing_time = @ - 1]
                     ELSE persons[p]]
    /\ finished' = SelectPersons(assigned_list,
                     {p \in Persons : persons[p].processing_time <= 0})
    /\ snapshot' = assigned_list
    /\ pc' = IF finished' = <<>> THEN "generate" ELSE "complete"
    /\ UNCHANGED <<limit, assigned_list, awaiting_queue, completed_list,
                   seen_ids, clock, call, tick_interval, users, batch,
                   created, gen, saved, raised, ticks_total, reported, trace>>

\* run with `p.processing_time < 0` at line 207: a person is finished only
\* one tick after its time has reached zero
Decrement_strict ==
    /\ pc = "decrement"
    /\ persons' = [p \in Persons |->
                     IF p \in Range(assigned_list)
                     THEN [persons[p] EXCEPT !.processing_time = @ - 1]
                     ELSE persons[p]]
    /\ finished' = SelectPersons(assigned_list,
                     {p \in Persons : persons'[p].processing_time < 0})
    /\ snapshot' = assigned_list
    /\ pc' = IF finished' = <<>> THEN "generate" ELSE "complete"
    /\ UNCHANGED <<limit, assigned_list, awaiting_queue, completed_list,
                   seen_ids, clock, call, tick_interval, users, batch,
                   created, gen, saved, raised, ticks_total, reported, trace>>

\* run, lines 203-207: every person of the assigned_list snapshot loses one
\* unit of processing time, then `finished` is read off a second snapshot
Decrement ==
    /\ pc = "decrement"
    /\ persons' = [p \in Persons |->
                     IF p \in Range(assigned_list)
                     THEN [persons[p] EXCEPT !.processing_time = @ - 1]
                     ELSE persons[p]]
    /\ finished' = SelectPersons(assigned_list,
                     {p \in Persons : persons'[p].processing_time <= 0})
    /\ snapshot' = assigned_list
    /\ pc' = IF finished' = <<>> THEN "generate" ELSE "complete"
    /\ UNCHANGED <<limit, assigned_list, awaiting_queue, completed_list,
                   seen_ids, clock, call, tick_interval, users, batch,
                   created, gen, saved, raised, ticks_total, reported, trace>>

\* run, lines 209-210: one iteration of `for person in finished`; a
\* ValueError of complete is not caught by run and ends it
CompleteNext ==
    /\ pc = "complete"
    /\ LET p == Head(finished)
           r == complete(Reg, p)
       IN  /\ SetReg(r)
           /\ call' = [op |-> "complete", person |-> p, signal |-> r.signal]
           /\ finished' = Tail(finished)
           /\ pc' = IF r.signal = "ValueError" THEN "error"
                    ELSE IF finished' = <<>> THEN "generate" ELSE "complete"
           /\ raised' = IF r.signal = "ValueError" THEN "ValueError"
                        ELSE raised
           /\ trace' = Observe(r)
    /\ UNCHANGED <<tick_interval, users, batch, created, gen, saved,
                   ticks_total, reported, snapshot>>

\* PersonGenerator.generate, called at line 212. random.randint(a, b)
\* raises ValueError when a > b; otherwise it draws any value of a..b
Generate ==
    /\ pc = "generate"
    /\ IF gen.min_user_per_tick > gen.max_user_per_tick
       THEN /\ pc' = "error"
            /\ raised' = "ValueError"
            /\ UNCHANGED <<persons, users, batch, created>>
       ELSE \E number_users \in gen.min_user_per_tick..gen.max_user_per_tick :
              IF number_users > 0
                 /\ gen.min_processing_time > gen.max_processing_time
              THEN /\ pc' = "error"
                   /\ raised' = "ValueError"
                   /\ UNCHANGED <<persons, users, batch, created>>
              ELSE /\ created + number_users <= NumPersons
                   /\ \E times \in [1..number_users ->
                          gen.min_processing_time..gen.max_processing_time] :
                        persons' = [p \in Persons |->
                            IF p \in (created+1)..(created+number_users)
                            THEN NewPerson(times[p - created])
                            ELSE persons[p]]
                   /\ users' = [i \in 1..number_users |-> created + i]
                   /\ batch' = users'
                   /\ created' = created + number_users
                   /\ pc' = IF number_users = 0 THEN "report" ELSE "add"
                   /\ UNCHANGED raised
    /\ UNCHANGED <<limit, assigned_list, awaiting_queue, completed_list,
                   seen_ids, clock, call, tick_interval, finished, gen, saved,
                   obsvars>>

\* run, lines 213-214: one iteration of `for user in users`
AddNext ==
    /\ pc = "add"
    /\ LET p == Head(users)
           r == add(Reg, p)
       IN  /\ SetReg(r)
           /\ call' = [op |-> "add", person |-> p, signal |-> r.signal]
           /\ trace' = Observe(r)
    /\ users' = Tail(users)
    /\ pc' = IF users' = <<>> THEN "report" ELSE "add"
    /\ UNCHANGED <<tick_interval, finished, batch, created, gen, saved,
                   raised, ticks_total, reported, snapshot>>

\* run with the export inside the loop: save is called after every tick
Report_saving ==
    /\ pc = "report"
    /\ pc' = "while"
    /\ saved' = Append(saved, completed_list)
    /\ reported' = reported + 1
    /\ UNCHANGED <<regvars, call, tick_interval, finished, users, batch,
                   created, gen, raised, ticks_total, snapshot, trace>>

\* run, lines 216-217: report_detailed changes nothing, sleep ends the tick
Report ==
    /\ pc = "report"
    /\ pc' = "while"
    /\ reported' = reported + 1
    /\ UNCHANGED <<regvars, call, tick_interval, finished, users, batch,
                   created, gen, saved, raised, ticks_total, snapshot, trace>>

\* run, lines 218-219: Ctrl-C while the try block is active leaves the loop
KeyboardInterrupt ==
    /\ pc \in InLoop
    /\ pc' = "final"
    /\ raised' = "KeyboardInterrupt"
    /\ UNCHANGED <<regvars, call, tick_interval, finished, users, batch,
                   created, gen, saved, obsvars>>

\* Registry.complete cut short after its k-th assignment by an exception
\* raised from outside (lines 115, 116, 117, 118, 119; then, inside promote,
\* lines 110 and 111); person is in the active list
complete_upto(r, p, k) ==
    LET r1 == [r EXCEPT !.persons[p].completed_at = now(r), !.clock = now(r)]
        r2 == [r1 EXCEPT !.persons[p].status = "COMPLETED"]
        r3 == [r2 EXCEPT !.assigned_list = remove(@, p)]
        r4 == [r3 EXCEPT !.seen_ids = @ \ {id_no(p)}]
        r5 == [r4 EXCEPT !.completed_list = Append(@, p)]
        r6 == [r5 EXCEPT !.awaiting_queue = Tail(@)]
        r7 == assign(r6, Head(r5.awaiting_queue))
    IN  CASE k = 1 -> r1
          [] k = 2 -> r2
          [] k = 3 -> r3
          [] k = 4 -> r4
          [] k = 5 -> r5
          [] k = 6 -> r6
          [] k = 7 -> r7

\* the cuts of complete(r, p) that exist: promote pops only when somebody
\* waits for the slot that was freed
CompleteCuts(r, p) ==
    IF complete_upto(r, p, 5).awaiting_queue # <<>>
       /\ available_tickets(complete_upto(r, p, 5)) > 0
    THEN 1..7 ELSE 1..5

\* Registry.add of a new person cut short after line 97, after line 100 or
\* after line 103 (assigned, not yet appended)
add_upto(r, p, k) ==
    LET r1 == [r EXCEPT !.seen_ids = @ \cup {id_no(p)}]
        r2 == IF r1.persons[p].registered_at = None
              THEN register(r1, p) ELSE r1
        r3 == assign(r2, p)
    IN  CASE k = 1 -> r1
          [] k = 2 -> r2
          [] k = 3 -> r3

\* the cuts of add(r, p) that exist
AddCuts(r, p) ==
    IF id_no(p) \in r.seen_ids THEN {}
    ELSE IF available_tickets(r) > 0 THEN 1..3 ELSE 1..2

\* Ctrl-C is delivered between two bytecodes, so also while run is inside
\* Registry.complete (lines 115-120): the except clause of line 218 is
\* reached with the call cut short
InterruptInComplete ==
    /\ pc = "complete"
    /\ \E k \in CompleteCuts(Reg, Head(finished)) :
          LET r == complete_upto(Reg, Head(finished), k)
          IN  /\ SetReg(r)
              /\ trace' = Observe(r)
    /\ call' = [op |-> "complete", person |-> Head(finished),
                signal |-> "KeyboardInterrupt"]
    /\ pc' = "final"
    /\ raised' = "KeyboardInterrupt"
    /\ UNCHANGED <<tick_interval, finished, users, batch, created, gen, saved,
                   ticks_total, reported, snapshot>>

\* Ctrl-C while run is inside Registry.add (lines 93-106)
InterruptInAdd ==
    /\ pc = "add"
    /\ \E k \in AddCuts(Reg, Head(users)) :
          LET r == add_upto(Reg, Head(users), k)
          IN  /\ SetReg(r)
              /\ trace' = Observe(r)
    /\ call' = [op |-> "add", person |-> Head(users),
                signal |-> "KeyboardInterrupt"]
    /\ pc' = "final"
    /\ raised' = "KeyboardInterrupt"
    /\ UNCHANGED <<tick_interval, finished, users, batch, created, gen, saved,
                   ticks_total, reported, snapshot>>

\* Ctrl-C inside the loop of lines 203-204: only the first j persons of the
\* snapshot have been decremented
InterruptInDecrement ==
    /\ pc = "decrement"
    /\ \E j \in 1..Len(assigned_list) :
          persons' = [p \in Persons |->
                        IF p \in Range(SubSeq(assigned_list, 1, j))
                        THEN [persons[p] EXCEPT !.processing_time = @ - 1]
                        ELSE persons[p]]
    /\ snapshot' = assigned_list
    /\ pc' = "final"
    /\ raised' = "KeyboardInterrupt"
    /\ UNCHANGED <<limit, assigned_list, awaiting_queue, completed_list,
                   seen_ids, clock, call, tick_interval, finished, users,
                   batch, created, gen, saved, ticks_total, reported, trace>>

\* Ctrl-C after the try block (lines 221-224, before the file is written)
\* is not caught: it ends run like any other exception
LateInterrupt ==
    /\ pc = "final"
    /\ pc' = "error"
    /\ raised' = "KeyboardInterrupt"
    /\ UNCHANGED <<regvars, call, tick_interval, finished, users, batch,
                   created, gen, saved, obsvars>>

\* run, lines 221-225; Registry.save writes one row per completed person
Save ==
    /\ pc = "final"
    /\ saved' = Append(saved, completed_list)
    /\ pc' = "done"
    /\ UNCHANGED <<regvars, call, tick_interval, finished, users, batch,
                   created, gen, raised, obsvars>>

NextRun ==
    \/ WhileTest
    \/ Decrement
    \/ CompleteNext
    \/ Generate
    \/ AddNext
    \/ Report
    \/ KeyboardInterrupt
    \/ InterruptInComplete
    \/ InterruptInAdd
    \/ InterruptInDecrement
    \/ LateInterrupt
    \/ Save

SpecRun == InitRun /\ [][NextRun]_vars

\* the steps run takes by itself (no Ctrl-C)
ProgramStep ==
    \/ WhileTest
    \/ Decrement
    \/ CompleteNext
    \/ Generate
    \/ AddNext
    \/ Report
    \/ Save

\* ----------------------------------------------------------- properties
\* a occurs before b in the list s
Before(s, a, b) ==
    /\ IndexOf(s, a) # 0
    /\ IndexOf(s, b) # 0
    /\ IndexOf(s, a) < IndexOf(s, b)

\* the persons that are in both lists keep their relative order: each list,
\* cut down to the persons of the other, reads the same
OrderKept(s, t) ==
    s = t \/ SelectPersons(s, Range(t)) = SelectPersons(t, Range(s))

\* the last n elements of s
Suffix(s, n) == SubSeq(s, Len(s) - n + 1, Len(s))

\* the person a call promoted: assigned by the last now() of the call
PromotedByCall(p) ==
    /\ p \in Range(assigned_list)
    /\ persons[p].assigned_at = clock
    /\ persons[p].status = "ASSIGNED"

\* C1: after any sequence of add, complete and promote calls on a registry of
\* positive limit the active list holds between 0 and limit persons, so
\* available_tickets is never negative.
C1_ActiveWithinCapacity ==
    /\ limit > 0
    /\ 0 <= Len(assigned_list)
    /\ Len(assigned_list) <= limit
    /\ available_tickets(Reg) >= 0

\* C1 witness: the active list is full and an add has just queued a person
C1_Witness ==
    /\ call.op = "add"
    /\ call.signal = "ok"
    /\ Len(assigned_list) = limit
    /\ call.person \in Range(awaiting_queue)

\* C2: FIFO promotion. In every step: a waiting person is moved to the
\* active list only together with every person queued ahead of it, and after
\* them in the active list; persons that stay in the queue keep their order;
\* and a person that enters the queue enters behind all that stay.
C2_FifoPromotion ==
    [][ /\ \A a, b \in Persons :
             ( /\ Before(awaiting_queue, a, b)
               /\ b \notin Range(awaiting_queue')
               /\ b \in Range(assigned_list') )
             => ( /\ a \notin Range(awaiting_queue')
                  /\ Before(assigned_list', a, b) )
        /\ OrderKept(awaiting_queue, awaiting_queue')
        /\ \A a, b \in Persons :
             ( /\ a \in Range(awaiting_queue) /\ a \in Range(awaiting_queue')
               /\ b \notin Range(awaiting_queue)
               /\ b \in Range(awaiting_queue') )
             => Before(awaiting_queue', a, b)
      ]_vars

\* C2 witness: a complete call has promoted the head of a queue of two or
\* more, and the person queued behind it still waits
C2_Witness ==
    /\ call.op = "complete"
    /\ call.signal = "ok"
    /\ awaiting_queue # <<>>
    /\ \E p \in Persons : PromotedByCall(p)

\* C3: in every reachable state the seen-identifier set is exactly the set of
\* the identifiers of the persons in the active list or the waiting queue.
C3_SeenIsLive ==
    seen_ids = {id_no(p) : p \in Range(assigned_list) \cup Range(awaiting_queue)}

\* C3 witness: a person has been completed while others are still live
C3_Witness ==
    /\ call.op = "complete"
    /\ call.signal = "ok"
    /\ completed_list # <<>>
    /\ seen_ids # {}
    /\ id_no(call.person) \notin seen_ids

\* C4: complete called on a person that is not in the active list raises an
\* error; the person is not appended to the completed log and nobody is
\* promoted (active list, waiting queue and seen set stay as they were).
C4_CompleteNonActiveFails ==
    [][ ( /\ call'.op = "complete"
          /\ call'.person \notin Range(assigned_list) )
        => ( /\ call'.signal = "ValueError"
             /\ completed_list' = completed_list
             /\ assigned_list' = assigned_list
             /\ awaiting_queue' = awaiting_queue
             /\ seen_ids' = seen_ids )
      ]_vars

\* C4 witness: complete was called on a waiting person while a slot was
\* taken by another, and raised
C4_Witness ==
    /\ call.op = "complete"
    /\ call.signal = "ValueError"
    /\ call.person \in Range(awaiting_queue)
    /\ assigned_list # <<>>

\* C5: in every reachable state every person in the active list or the
\* waiting queue has a status other than COMPLETED, and every person in the
\* completed log has status COMPLETED.
C5_StatusMatchesCollection ==
    /\ \A p \in Range(assigned_list) \cup Range(awaiting_queue) :
          persons[p].status # "COMPLETED"
    /\ \A p \in Range(completed_list) :
          persons[p].status = "COMPLETED"

\* C6: the collections are pairwise disjoint in every reachable state: a
\* person is at most once and in at most one of the active list and the
\* waiting queue, and a person of the completed log is in neither of them
\* and its identifier is not in the seen set.
C6_CollectionsDisjoint ==
    /\ Cardinality(Range(assigned_list)) = Len(assigned_list)
    /\ Cardinality(Range(awaiting_queue)) = Len(awaiting_queue)
    /\ Range(assigned_list) \cap Range(awaiting_queue) = {}
    /\ \A p \in Range(completed_list) :
          /\ p \notin Range(assigned_list)
          /\ p \notin Range(awaiting_queue)
          /\ id_no(p) \notin seen_ids

\* C7: completion coupling. When complete is called on an active person
\* while the active list is full and the waiting queue is not empty, that
\* call moves exactly the head of the queue to the end of the active list:
\* the active list is full again and the queue is its former tail.
C7_CompletionCoupling ==
    [][ ( /\ call'.op = "complete"
          /\ call'.person \in Range(assigned_list)
          /\ Len(assigned_list) = limit
          /\ awaiting_queue # <<>> )
        => ( /\ call'.signal = "ok"
             /\ awaiting_queue' = Tail(awaiting_queue)
             /\ assigned_list' = Append(remove(assigned_list, call'.person),
                                        Head(awaiting_queue))
             /\ Len(assigned_list') = limit
             /\ persons'[Head(awaiting_queue)].status = "ASSIGNED"
             /\ completed_list' = Append(completed_list, call'.person) )
      ]_vars

\* C7 witness: a complete call on a full registry has just put the former
\* queue head into the freed slot
C7_Witness ==
    /\ call.op = "complete"
    /\ call.signal = "ok"
    /\ Len(assigned_list) = limit
    /\ completed_list # <<>>
    /\ completed_list[Len(completed_list)] = call.person
    /\ PromotedByCall(assigned_list[Len(assigned_list)])
    /\ persons[assigned_list[Len(assigned_list)]].registered_at
         < persons[call.person].completed_at - 1

\* C8: duplicate rejection. add called with a person whose identifier is in
\* the seen set (live) reports the duplicate and leaves the active list, the
\* waiting queue, the completed log, the seen set and every person's status
\* and timestamps unchanged.
C8_DuplicateRejected ==
    [][ ( /\ call'.op = "add"
          /\ id_no(call'.person) \in seen_ids )
        => ( /\ call'.signal = "duplicate"
             /\ UNCHANGED <<assigned_list, awaiting_queue, completed_list,
                            seen_ids, persons, clock>> )
      ]_vars

\* C8 witness: an add of a live person was rejected, once for a person that
\* is active or waiting
C8_Witness ==
    /\ call.op = "add"
    /\ call.signal = "duplicate"
    /\ call.person \in Range(assigned_list) \cup Range(awaiting_queue)
    /\ awaiting_queue # <<>>

\* the users of this tick's batch that have been passed to add so far
Submitted == SubSeq(batch, 1, Len(batch) - Len(users))

\* C9: while the batch of a tick is submitted by successive add calls, the
\* users submitted so far are, in call order, the last entries of the active
\* list followed by the last entries of the waiting queue, and a user is
\* queued only when the active list is full; and no step of the run changes
\* the relative order of the persons that stay in the active list or in the
\* waiting queue.
C9_BatchOrderKept ==
    /\ [] ( pc \in {"add", "report"} =>
             \E j \in 0..Len(Submitted) :
                /\ j <= Len(assigned_list)
                /\ Len(Submitted) - j <= Len(awaiting_queue)
                /\ Suffix(assigned_list, j) = SubSeq(Submitted, 1, j)
                /\ Suffix(awaiting_queue, Len(Submitted) - j)
                     = SubSeq(Submitted, j + 1, Len(Submitted))
                /\ (j < Len(Submitted) => Len(assigned_list) = limit)
                /\ \A i \in 1..Len(Submitted) :
                     persons[Submitted[i]].status =
                        IF i <= j THEN "ASSIGNED" ELSE "WAITING" )
    /\ [][ /\ OrderKept(assigned_list, assigned_list')
           /\ OrderKept(awaiting_queue, awaiting_queue') ]_vars

\* C9 witness: a batch larger than the free slots has been submitted to a
\* registry that already held a person: the first user of the batch took
\* the last free slot and the last user was queued
C9_Witness ==
    /\ pc = "report"
    /\ Len(batch) >= 2
    /\ Len(assigned_list) = limit
    /\ limit >= 2
    /\ assigned_list[limit] = batch[1]
    /\ assigned_list[1] \notin Range(batch)
    /\ awaiting_queue # <<>>
    /\ awaiting_queue[Len(awaiting_queue)] = batch[Len(batch)]

\* C10: the completed log is exported at most once per run and never while
\* the loop is running; a run whose loop ended normally or by a caught
\* KeyboardInterrupt and that reached its end has exported exactly once, the
\* completed log as it then is; a run ended by an exception that propagated
\* out of run has exported nothing.
C10_ExportOnceAtEnd ==
    /\ Len(saved) <= 1
    /\ (pc \in InLoop => saved = <<>>)
    /\ (pc = "final" => saved = <<>> /\ raised \in {"none", "KeyboardInterrupt"})
    /\ (pc = "done" => /\ saved = <<completed_list>>
                       /\ raised \in {"none", "KeyboardInterrupt"})
    /\ (raised = "ValueError" => pc = "error")
    /\ (pc = "error" => saved = <<>> /\ raised # "none")

\* C10 witness: a run stopped by Ctrl-C with ticks left has exported its
\* non-empty completed log
C10_Witness ==
    /\ pc = "done"
    /\ raised = "KeyboardInterrupt"
    /\ tick_interval > 0
    /\ completed_list # <<>>
    /\ saved = <<completed_list>>

\* C11: promote is idempotent. A second promote() changes nothing that the
\* first left: in the state after any promote call another promote call
\* leaves the lists, the completed log, the seen set and every person's
\* status and timestamps as they are; and in every reachable state promote
\* applied twice gives what promote applied once gives.
C11_PromoteIdempotent ==
    /\ promote(promote(Reg)) = promote(Reg)
    /\ (call.op = "promote" => promote(Reg) = Reg)

\* C11 witness: promote has been called while persons wait behind a full
\* active list: a second call finds the queue non-empty
C11_Witness ==
    /\ call.op = "promote"
    /\ awaiting_queue # <<>>
    /\ Len(assigned_list) = limit
    /\ completed_list # <<>>

\* the persons of the snapshot of this tick whose time is used up
Due == {p \in Range(snapshot) : persons[p].processing_time <= 0}

\* the persons appended to the completed log in the tick the loop is in
CompletedThisTick == {p \in Persons : trace[p].left = TickNo}

\* the positions of run after the completions of a tick
AfterCompletions == {"generate", "add", "report"}

\* C12: in each tick run completes exactly the persons that were active at
\* the start of the tick and whose time is <= 0 after the decrement, each
\* once. A person that enters the active list during the tick keeps the time
\* it came with and is not completed in that tick; a person of the snapshot
\* has lost one unit per tick since the tick after the one it entered in.
C12_TickCompletesDueOnly ==
    /\ pc = "complete" =>
          /\ Due = CompletedThisTick \cup Range(finished)
          /\ CompletedThisTick \cap Range(finished) = {}
          /\ Range(finished) \subseteq Range(assigned_list)
    /\ pc \in AfterCompletions =>
          /\ CompletedThisTick = Due
          /\ \A p \in Range(snapshot) \ Due :
                p \in Range(assigned_list) /\ p \notin Range(completed_list)
          /\ \A p \in Due :
                p \notin Range(assigned_list) /\ p \in Range(completed_list)
    /\ pc \in AfterCompletions \cup {"complete"} =>
          /\ Cardinality(Range(completed_list)) = Len(completed_list)
          /\ \A p \in Range(snapshot) :
                /\ trace[p].entered < TickNo
                /\ persons[p].processing_time
                     = trace[p].time - (TickNo - trace[p].entered)
          /\ \A p \in Range(assigned_list) \ Range(snapshot) :
                /\ trace[p].entered = TickNo
                /\ persons[p].processing_time = trace[p].time
                /\ persons[p].status = "ASSIGNED"
                /\ p \notin Range(completed_list)

\* C12 witness: in one tick a person was completed and the person promoted
\* into its slot has no time left, yet stays active until the next tick
C12_Witness ==
    /\ pc = "generate"
    /\ CompletedThisTick # {}
    /\ \E p \in Range(assigned_list) \ Range(snapshot) :
          /\ persons[p].processing_time <= 0
          /\ trace[p].entered = TickNo

\* the place of a status on the path Unassigned -> Waiting -> Assigned ->
\* Completed
Rank(status) ==
    CASE status = "UNASSIGNED" -> 0
      [] status = "WAITING"    -> 1
      [] status = "ASSIGNED"   -> 2
      [] status = "COMPLETED"  -> 3

\* C13: under any sequence of registry calls a person's status only moves
\* forward along Unassigned -> Waiting -> Assigned -> Completed: no call
\* moves it to an earlier status, and a status of Completed never changes.
C13_StatusOnlyForward ==
    [][ \A p \in Persons :
           /\ Rank(persons'[p].status) >= Rank(persons[p].status)
           /\ (persons[p].status = "COMPLETED"
                 => persons'[p].status = "COMPLETED")
      ]_vars

\* C14: a person's timestamps are filled left to right: in every reachable
\* state a set completed_at implies a set assigned_at and a set assigned_at
\* implies a set registered_at; and no call overwrites a timestamp that is
\* set.
C14_TimestampsLeftToRight ==
    /\ [] ( \A p \in Persons :
              /\ (persons[p].completed_at # None
                    => persons[p].assigned_at # None)
              /\ (persons[p].assigned_at # None
                    => persons[p].registered_at # None) )
    /\ [][ \A p \in Persons :
              /\ (persons[p].registered_at # None
                    => persons'[p].registered_at = persons[p].registered_at)
              /\ (persons[p].assigned_at # None
                    => persons'[p].assigned_at = persons[p].assigned_at)
              /\ (persons[p].completed_at # None
                    => persons'[p].completed_at = persons[p].completed_at)
         ]_vars

\* how much of an iteration is left at a position of run, in steps at most
StepsLeft ==
    CASE pc = "decrement" -> 2 * NumPersons + 6
      [] pc = "complete"  -> NumPersons + 5 + Len(finished)
      [] pc = "generate"  -> NumPersons + 5
      [] pc = "add"       -> 4 + Len(users)
      [] pc = "report"    -> 4
      [] pc = "while"     -> 3
      [] pc = "final"     -> 2
      [] OTHER            -> 1

\* a bound on the steps run still takes: whole iterations left, then the
\* rest of the current one
Measure == tick_interval * (2 * NumPersons + 7) + StepsLeft

\* C15: a run built with tick count N >= 0 and not interrupted executes the
\* per-tick algorithm exactly N times and then ends. Every iteration begun
\* is one of N, every step of run brings its end nearer (Measure falls and
\* stays positive), no position of the loop is stuck, and when the loop has
\* ended without an exception N summaries were logged and the counter is 0.
\* With N = 0 nothing is decremented, completed or added.
C15_ExactlyNTicks ==
    /\ [] ( /\ tick_interval >= 0
            /\ TickNo <= ticks_total
            /\ Measure > 0
            /\ reported = IF pc \in InLoop \ {"while"} THEN TickNo - 1
                          ELSE IF pc = "while" \/ raised = "none" THEN TickNo
                          ELSE reported
            /\ reported <= TickNo
            /\ TickNo <= reported + 1
            /\ (pc = "complete" => finished # <<>>)
            /\ (pc = "add" => users # <<>>)
            /\ (pc \in {"final", "done"} /\ raised = "none"
                  => reported = ticks_total /\ tick_interval = 0)
            /\ (ticks_total = 0
                  => /\ pc \in {"while", "final", "done", "error"}
                     /\ reported = 0
                     /\ clock = 0
                     /\ created = 0
                     /\ assigned_list = <<>>
                     /\ awaiting_queue = <<>>
                     /\ completed_list = <<>>
                     /\ persons = [p \in Persons |-> NewPerson(0)]) )
    /\ [][ ProgramStep => Measure' < Measure ]_vars

\* C15 witness: an uninterrupted run of two or more ticks has ended after
\* logging as many summaries, with persons completed on the way
C15_Witness ==
    /\ pc = "done"
    /\ raised = "none"
    /\ ticks_total >= 2
    /\ reported = ticks_total
    /\ completed_list # <<>>
    /\ awaiting_queue # <<>>

\* every person is in the collection its status names, the seen set holds
\* the live identifiers and nobody waits for a free slot: the registry as
\* its calls leave it when they run to their end
RegistryWhole ==
    /\ \A p \in Persons :
          /\ persons[p].status = "ASSIGNED" <=> p \in Range(assigned_list)
          /\ persons[p].status = "WAITING" <=> p \in Range(awaiting_queue)
          /\ persons[p].status = "COMPLETED" <=> p \in Range(completed_list)
          /\ persons[p].completed_at # None <=> persons[p].status = "COMPLETED"
    /\ seen_ids = {id_no(p) : p \in Range(assigned_list) \cup Range(awaiting_queue)}
    /\ (awaiting_queue # <<>> => Len(assigned_list) = limit)

\* C16: an interruption never stops run in the middle of a step: when the
\* loop has been left, no registry call is half-applied (no person has been
\* removed from the active list without being appended to the completed
\* log, and so on).
C16_NoHalfAppliedOperation ==
    pc \in {"final", "done", "error"} => RegistryWhole

\* s is an initial part of t
IsPrefix(s, t) == Len(s) <= Len(t) /\ SubSeq(t, 1, Len(s)) = s

\* the persons of this tick's snapshot that are due, in snapshot order
DueInOrder == SelectPersons(snapshot, Due)

\* C17: the completed log is append-only: every step leaves the former log
\* as an initial part of the new one; and the persons finished within one
\* tick are appended in the order they had in the active list: after the
\* completions of a tick the log ends with the due persons in snapshot
\* order, and during them the part already appended followed by the part
\* still to complete is that list.
C17_CompletedLogAppendOnly ==
    /\ [][ IsPrefix(completed_list, completed_list') ]_vars
    /\ [] ( pc \in AfterCompletions =>
               /\ Len(DueInOrder) <= Len(completed_list)
               /\ Suffix(completed_list, Len(DueInOrder)) = DueInOrder )
    /\ [] ( pc = "complete" =>
               /\ Len(finished) <= Len(DueInOrder)
               /\ Len(DueInOrder) - Len(finished) <= Len(completed_list)
               /\ Suffix(completed_list, Len(DueInOrder) - Len(finished))
                    \o finished = DueInOrder )

\* C17 witness: two persons finished in one tick were appended, in the order
\* of the active list, behind a log that already held an earlier completion
C17_Witness ==
    /\ pc = "generate"
    /\ Len(DueInOrder) >= 2
    /\ Len(completed_list) > Len(DueInOrder)
    /\ Suffix(completed_list, 2) = Suffix(snapshot, 2)

\* C18: work conservation: after every add, complete or promote call that
\* returns normally on a registry of positive limit, nobody waits while a slot
\* is free: a non-empty waiting queue implies the active list is at its limit.
C18_WorkConserving ==
    limit > 0 /\ call.signal \in {"ok", "duplicate"} =>
        /\ (Len(awaiting_queue) > 0 => Len(assigned_list) = limit)
        /\ (Len(assigned_list) < limit => awaiting_queue = <<>>)

\* C18 witness: a completion has just freed a slot while persons waited, the
\* slot was refilled at once and a person is still waiting
C18_Witness ==
    /\ call.op = "complete"
    /\ call.signal = "ok"
    /\ limit > 0
    /\ awaiting_queue # <<>>
    /\ Len(assigned_list) = limit
    /\ call.person = completed_list[Len(completed_list)]
    /\ Len(assigned_list) + Len(awaiting_queue) + Len(completed_list)
         = NumPersons

\* the persons add has accepted: add registers a person when it accepts it
Accepted == {p \in Persons : persons[p].registered_at # None}

\* how often p occurs in the sequence s
Occurrences(s, p) == Cardinality({i \in DOMAIN s : s[i] = p})

\* how often p occurs in the three collections together
Held(p) ==
    Occurrences(assigned_list, p) + Occurrences(awaiting_queue, p)
      + Occurrences(completed_list, p)

\* C19: conservation: when every person submitted is new and every complete
\* succeeds, each person accepted by add is in exactly one of the active
\* list, the waiting queue and the completed log, exactly once; no other
\* person is in any of them; and the three lengths sum to the number of
\* accepted adds.
C19_Conservation ==
    /\ \A p \in Persons : Held(p) = IF p \in Accepted THEN 1 ELSE 0
    /\ Len(assigned_list) + Len(awaiting_queue) + Len(completed_list)
         = Cardinality(Accepted)
    /\ call.signal = "ok"

\* C19 witness: all persons were accepted, one has completed, one was
\* promoted into the freed slot and one is still waiting
C19_Witness ==
    /\ Cardinality(Accepted) = NumPersons
    /\ call.op = "complete"
    /\ assigned_list # <<>>
    /\ awaiting_queue # <<>>
    /\ completed_list # <<>>
    /\ \A p \in Persons : Held(p) = 1

\* the ticks a person that came with time r holds its slot: max(r, 1)
ServiceTicks(p) == IF trace[p].time > 1 THEN trace[p].time ELSE 1

\* the tick in which a person that has entered the active list is to complete
DueTick(p) == trace[p].entered + ServiceTicks(p)

\* C20: service time: a person that entered the active list in tick t (by
\* add or by promotion) with time r is completed in tick t + max(r, 1) and in
\* no other: whoever has completed did so in that tick; whoever is active
\* has not reached it, or is being completed in it; and once the completions
\* of that tick are done the person has completed.
C20_ServiceTime ==
    \A p \in Persons :
       /\ trace[p].left # 0 =>
             /\ trace[p].entered # 0
             /\ trace[p].left = DueTick(p)
       /\ p \in Range(assigned_list) /\ pc \in InLoop =>
             /\ trace[p].entered # 0
             /\ trace[p].left = 0
             /\ TickNo <= DueTick(p)
             /\ (pc \in AfterCompletions => TickNo < DueTick(p))
       /\ pc \in AfterCompletions /\ trace[p].entered # 0
            /\ TickNo >= DueTick(p) =>
             /\ trace[p].left = DueTick(p)
             /\ p \in Range(completed_list)

\* C20 witness: a person that came with time 2 in tick 1 and a person that
\* came with time 0 in tick 2 have both completed in tick 3
C20_Witness ==
    /\ pc = "generate"
    /\ TickNo = 3
    /\ \E p \in Persons :
          trace[p].time = 2 /\ trace[p].entered = 1 /\ trace[p].left = 3
    /\ \E q \in Persons :
          trace[q].time = 0 /\ trace[q].entered = 2 /\ trace[q].left = 3
====
